---- MODULE Spec2Model ----
(***************************************************************************)
(* A model of the `mun` command-line driver, crates/mun/src/lib.rs:        *)
(* run_with_args, build, start, compiler_options, runtime, find_manifest   *)
(* and language_server.  Every command runs on one control thread; the     *)
(* model follows that thread step by step (pc) and records what it calls   *)
(* (calls), what it prints (printed, stderr) and what it returns (result). *)
(*                                                                         *)
(* `new` (lib.rs 134-148) is an unfinished scaffolding stub with no        *)
(* return value; it is not modelled.                                       *)
(***************************************************************************)
EXTENDS Integers, Sequences, FiniteSets, TLC

VARIABLES
    argv,           \* the command line as clap sees it
    env_color,      \* MUN_TERMINAL_COLOR, or None
    fs,             \* the paths that exist on disk
    cwd,            \* std::env::current_dir(): a directory, or None (Err)
    library,        \* the compiled library: entry name -> declared function
    pc,             \* position of the control thread
    options,        \* build: the result of compiler_options
    manifest_path,  \* build: the located manifest
    builder,        \* runtime: the RuntimeBuilder
    borrow,         \* the RefCell of the runtime handle
    fn_definition,  \* start: the looked-up function definition
    compared,       \* start: the type guids the return guid was compared with
    requested,      \* start: the native representation asked of invoke_fn
    calls,          \* the collaborator calls made so far, in order
    printed,        \* stdout, one entry per println!
    stderr,         \* stderr, one entry per eprint!
    result,         \* what run_with_args returned
    directory,      \* test_find_manifest: the query directory
    lookups         \* test_find_manifest: the results of the lookups

vars == <<argv, env_color, fs, cwd, library, pc, options, manifest_path,
          builder, borrow, fn_definition, compared, requested, calls, printed, stderr,
          result, directory, lookups>>

None == "None"

\* None for an Option<PathBuf> and for an Option<&str> held as characters
NoPath == <<None>>
NoDelay == <<None>>

-----------------------------------------------------------------------------
(* Bounds *)

MaxDepth == 2       \* directories are at most this deep
MaxManifests == 2   \* find_manifest is run on trees with at most this many manifests
MaxLookups == 2     \* test_find_manifest repeats a lookup at most this often
MaxLen == 2         \* a --delay value has at most this many characters

-----------------------------------------------------------------------------
(* Paths.  A path is the sequence of its components; <<>> is the root. *)

MANIFEST_FILENAME == "mun.toml"

DirNames == {"a", "b"}

RECURSIVE SeqsUpTo(_, _)
SeqsUpTo(S, n) ==
    IF n = 0 THEN {<<>>}
    ELSE LET shorter == SeqsUpTo(S, n - 1)
         IN  shorter \cup {Append(s, x) : s \in shorter, x \in S}

Dirs == SeqsUpTo(DirNames, MaxDepth)

\* Path::join
join(dir, name) == Append(dir, name)

\* Path::parent: NoPath at the root
parent(dir) == IF dir = <<>> THEN NoPath ELSE SubSeq(dir, 1, Len(dir) - 1)

\* Path::exists against the filesystem snapshot
exists(files, path) == path \in files

\* find_manifest started one directory too high
RECURSIVE find_manifest_from_parent(_, _)
find_manifest_from_parent(files, dir) ==
    IF dir = NoPath \/ parent(dir) = NoPath THEN NoPath
    ELSE IF exists(files, join(parent(dir), MANIFEST_FILENAME))
         THEN join(parent(dir), MANIFEST_FILENAME)
         ELSE find_manifest_from_parent(files, parent(dir))

\* find_manifest: the loop over current_dir, one unfolding per iteration
RECURSIVE find_manifest(_, _)
find_manifest(files, current_dir) ==
    IF current_dir = NoPath THEN NoPath
    ELSE LET manifest == join(current_dir, MANIFEST_FILENAME)
         IN  IF exists(files, manifest) THEN manifest
             ELSE find_manifest(files, parent(current_dir))

AllManifests == {join(d, MANIFEST_FILENAME) : d \in Dirs}

-----------------------------------------------------------------------------
(* Results.  anyhow::Error carries a message; formatted messages are the   *)
(* format string's text followed by the arguments.                         *)

Ok(v) == [kind |-> "Ok", val |-> v]
Err(m) == [kind |-> "Err", msg |-> m]
IsOk(r) == r.kind = "Ok"
IsErr(r) == r.kind = "Err"

Success == "Success"
Error == "Error"

\* impl Into<ExitStatus> for bool
IntoExitStatus(b) == IF b THEN Success ELSE Error

Panic(m) == [kind |-> "Panic", msg |-> m]
IsPanic(r) == r.kind = "Panic"
NoResult == [kind |-> "None"]

-----------------------------------------------------------------------------
(* compiler_options *)

OPT_LEVEL_MSG == "Only optimization levels 0-3 are supported"

InvalidLevel == "invalid"

\* the opt-level match with the arms for "2" and "3" exchanged
optimization_lvl_swapped(value) ==
    CASE value = "0" -> "None"
      [] value = "1" -> "Less"
      [] value = None \/ value = "3" -> "Default"
      [] value = "2" -> "Aggressive"
      [] OTHER -> InvalidLevel

\* the match on matches.value_of("opt-level"); InvalidLevel is the `_` arm
optimization_lvl(value) ==
    CASE value = "0" -> "None"
      [] value = "1" -> "Less"
      [] value = None \/ value = "2" -> "Default"
      [] value = "3" -> "Aggressive"
      [] OTHER -> InvalidLevel

\* Option::or_else
or_else(opt, other) == IF opt # None THEN opt ELSE other

\* the color match applied to the environment before the flag
display_color_env_first(flag, env) ==
    LET value == or_else(env, flag)
    IN  IF value = None THEN "Auto"
        ELSE CASE value = "disable" -> "Disable"
               [] value = "enable" -> "Enable"
               [] OTHER -> "Auto"

\* value_of("color").or_else(env::var(..).ok()).map(match).unwrap_or(Auto)
display_color(flag, env) ==
    LET value == or_else(flag, env)
    IN  IF value = None THEN "Auto"
        ELSE CASE value = "disable" -> "Disable"
               [] value = "enable" -> "Enable"
               [] OTHER -> "Auto"

HostTarget == "x86_64-unknown-linux-gnu"
KnownTargets == {HostTarget, "x86_64-pc-windows-msvc"}

\* Target::host_target
host_target == Ok(HostTarget)

\* Target::search
target_search(triple) ==
    IF triple \in KnownTargets THEN Ok(triple)
    ELSE Err(<<"Unknown target triple: ", triple>>)

compiler_options(matches, env) ==
    LET lvl == optimization_lvl(matches.opt_level)
        color == display_color(matches.color, env)
        target == IF matches.target = None THEN host_target
                  ELSE target_search(matches.target)
    IN  IF lvl = InvalidLevel THEN Err(OPT_LEVEL_MSG)
        ELSE IF IsErr(target) THEN target
        ELSE Ok([target |-> target.val,
                 optimization_lvl |-> lvl,
                 out_dir |-> None,
                 display_color |-> color])

-----------------------------------------------------------------------------
(* The command line.  clap rejects a missing subcommand, a --color value   *)
(* outside possible_values and a start without LIBRARY.                    *)

COLOR_VALUES == {"enable", "auto", "disable"}

NoArgs == [subcommand |-> None, manifest_path |-> NoPath, watch |-> FALSE,
           opt_level |-> None, target |-> None, color |-> None,
           LIBRARY |-> None, entry |-> None, delay |-> NoDelay]

\* get_matches_from_safe
clap(args) ==
    CASE args.subcommand = None -> Err("usage")
      [] args.subcommand = "build" /\ args.color # None
            /\ args.color \notin COLOR_VALUES -> Err("invalid value for --color")
      [] args.subcommand = "start" /\ args.LIBRARY = None
            -> Err("required argument LIBRARY missing")
      [] OTHER -> Ok(args)

-----------------------------------------------------------------------------
(* Types, values and their textual form *)

\* the type-identity tokens of the three native types start decodes:
\* bool::type_guid(), f64::type_guid(), i64::type_guid()
bool_type_guid == "guid(core::bool)"
f64_type_guid == "guid(core::f64)"
i64_type_guid == "guid(core::i64)"

\* a TypeInfo: its guid and its name
TypeInfo(guid, name) == [kind |-> "Some", guid |-> guid, name |-> name]
NoType == [kind |-> "None"]

\* the return types a library can declare
TypeInfos ==
    {TypeInfo(bool_type_guid, "core::bool"), TypeInfo(f64_type_guid, "core::f64"),
     TypeInfo(i64_type_guid, "core::i64"), TypeInfo("guid(core::i32)", "core::i32"),
     TypeInfo("guid(Foo)", "Foo")}

\* the values a native call can hand back in each representation; an f64 is
\* given in halves (3 stands for 1.5)
BoolValues == BOOLEAN
F64Halves == {-3, 0, 1, 4}
I64Values == {-12, 0, 7}

NativeValues(repr) ==
    CASE repr = "bool" -> BoolValues
      [] repr = "f64" -> F64Halves
      [] repr = "i64" -> I64Values
      [] OTHER -> {"()"}

DigitChars == <<"0", "1", "2", "3", "4", "5", "6", "7", "8", "9">>

RECURSIVE Decimal(_)
Decimal(n) ==
    IF n < 10 THEN <<DigitChars[n + 1]>>
    ELSE Decimal(n \div 10) \o <<DigitChars[(n % 10) + 1]>>

Abs(n) == IF n < 0 THEN -n ELSE n

\* Display for bool, i64 and f64, as the characters written
fmt_bool(b) == IF b THEN <<"t", "r", "u", "e">> ELSE <<"f", "a", "l", "s", "e">>
fmt_i64(n) == (IF n < 0 THEN <<"-">> ELSE <<>>) \o Decimal(Abs(n))
fmt_f64(h) ==
    (IF h < 0 THEN <<"-">> ELSE <<>>) \o Decimal(Abs(h) \div 2)
        \o (IF Abs(h) % 2 = 1 THEN <<".", "5">> ELSE <<>>)

Display(repr, v) ==
    CASE repr = "bool" -> fmt_bool(v)
      [] repr = "f64" -> fmt_f64(v)
      [] repr = "i64" -> fmt_i64(v)

-----------------------------------------------------------------------------
(* The --delay value: a sequence of characters, parsed by str::parse::<u64>. *)
(* Values of at most MaxLen digits stay far below u64::MAX, so the          *)
(* overflow arm of the parser is out of reach here.                         *)

DelayChars == {"0", "2", "5", "a", "+"}
DelayStrings == SeqsUpTo(DelayChars, MaxLen)

IsDigit(c) == \E i \in 1..10 : DigitChars[i] = c
DigitValue(c) == (CHOOSE i \in 1..10 : DigitChars[i] = c) - 1

RECURSIVE ParseDigits(_, _)
ParseDigits(s, acc) ==
    IF s = <<>> THEN Ok(acc)
    ELSE IF ~IsDigit(Head(s)) THEN Err("invalid digit found in string")
    ELSE ParseDigits(Tail(s), acc * 10 + DigitValue(Head(s)))

\* u64::from_str: an empty string and a lone sign are errors, one leading
\* '+' is accepted
parse_u64(s) ==
    IF s = <<>> THEN Err("cannot parse integer from empty string")
    ELSE LET digits == IF Head(s) = "+" THEN Tail(s) ELSE s
         IN  IF digits = <<>> THEN Err("invalid digit found in string")
             ELSE ParseDigits(digits, 0)

DEFAULT_DELAY_MS == 10

\* RuntimeBuilder::new
RuntimeBuilder_new(lib) == [library_path |-> lib, delay |-> DEFAULT_DELAY_MS]
NoBuilder == [library_path |-> None, delay |-> 0]

\* the builder with set_delay skipped
runtime_builder_ignore_delay(matches) ==
    IF matches.delay # NoDelay /\ IsErr(parse_u64(matches.delay))
    THEN parse_u64(matches.delay)
    ELSE Ok(RuntimeBuilder_new(matches.LIBRARY))

\* runtime(), up to the spawn: the builder, or the parse error
runtime_builder(matches) ==
    LET new == RuntimeBuilder_new(matches.LIBRARY)
    IN  IF matches.delay # NoDelay
        THEN LET delay == parse_u64(matches.delay)
             IN  IF IsErr(delay) THEN delay
                 ELSE Ok([new EXCEPT !.delay = delay.val])
        ELSE Ok(new)

-----------------------------------------------------------------------------
(* The runtime handle: Rc<RefCell<Runtime>>.  RefCell counts the shared    *)
(* borrows and flags the exclusive one; a conflicting request panics.      *)

NoBorrow == [shared |-> 0, excl |-> FALSE, conflict |-> FALSE]

\* RefCell::borrow
RefCell_borrow(b) ==
    IF b.excl THEN [b EXCEPT !.conflict = TRUE]
    ELSE [b EXCEPT !.shared = @ + 1]

\* dropping a Ref
drop_ref(b) == [b EXCEPT !.shared = IF @ > 0 THEN @ - 1 ELSE 0]

\* dropping whatever guard start holds when it returns
drop_borrowed(b) == IF b.excl THEN [b EXCEPT !.excl = FALSE] ELSE drop_ref(b)

\* start taking the handle exclusively, as RefCell::borrow_mut would
start_borrow_exclusive(b) ==
    IF b.excl \/ b.shared > 0 THEN [b EXCEPT !.conflict = TRUE]
    ELSE [b EXCEPT !.excl = TRUE]

\* let borrowed = runtime.borrow();
start_borrow(b) == RefCell_borrow(b)

\* the borrow invoke_fn! takes on the handle for the call
invoke_fn_borrow(b) == RefCell_borrow(b)

-----------------------------------------------------------------------------
(* The library and the entry point *)

FnNames == {"main", "run"}

FnDef(ret) == [found |-> TRUE, return_type |-> ret]
NoFn == [found |-> FALSE, return_type |-> NoType]

ReturnTypes == {NoType} \cup TypeInfos
Libraries == [FnNames -> {NoFn} \cup {FnDef(t) : t \in ReturnTypes}]
NoLibrary == [n \in FnNames |-> NoFn]

\* matches.value_of("entry").unwrap_or("main")
entry_point(matches) == IF matches.entry = None THEN "main" ELSE matches.entry

\* Runtime::get_function_definition
get_function_definition(lib, name) == IF name \in DOMAIN lib THEN lib[name] ELSE NoFn

UNSUPPORTED_MSG ==
    "Only native Mun return types are supported for entry points. Found: "

\* the if-chain with the i64 arm swallowing every other type
dispatch_no_refusal(guid) ==
    IF guid = bool_type_guid
    THEN [compared |-> <<bool_type_guid>>, repr |-> "bool"]
    ELSE IF guid = f64_type_guid
    THEN [compared |-> <<bool_type_guid, f64_type_guid>>, repr |-> "f64"]
    ELSE [compared |-> <<bool_type_guid, f64_type_guid>>, repr |-> "i64"]

\* the if-chain with the f64 arm decoding as i64
dispatch_wrong_repr(guid) ==
    IF guid = bool_type_guid
    THEN [compared |-> <<bool_type_guid>>, repr |-> "bool"]
    ELSE IF guid = f64_type_guid
    THEN [compared |-> <<bool_type_guid, f64_type_guid>>, repr |-> "i64"]
    ELSE IF guid = i64_type_guid
    THEN [compared |-> <<bool_type_guid, f64_type_guid, i64_type_guid>>,
          repr |-> "i64"]
    ELSE [compared |-> <<bool_type_guid, f64_type_guid, i64_type_guid>>,
          repr |-> None]

\* the if / else if chain on *type_guid: the guids compared, in order, and
\* the representation of the arm taken (None for the final else)
dispatch(guid) ==
    IF guid = bool_type_guid
    THEN [compared |-> <<bool_type_guid>>, repr |-> "bool"]
    ELSE IF guid = f64_type_guid
    THEN [compared |-> <<bool_type_guid, f64_type_guid>>, repr |-> "f64"]
    ELSE IF guid = i64_type_guid
    THEN [compared |-> <<bool_type_guid, f64_type_guid, i64_type_guid>>,
          repr |-> "i64"]
    ELSE [compared |-> <<bool_type_guid, f64_type_guid, i64_type_guid>>,
          repr |-> None]

-----------------------------------------------------------------------------
(* The log of operations: what was called, with what, and how it ended. *)

Call(op, arg, outcome) ==
    [op |-> op, arg |-> arg, outcome |-> outcome, answer |-> NoResult]

\* the last call of the log, ended with an answer
Returned(log, outcome, answer) ==
    [log EXCEPT ![Len(log)].outcome = outcome, ![Len(log)].answer = answer]

Outcome(ok) == IF ok THEN "ok" ELSE "failed"

\* what the compile collaborators and the other collaborators can answer
CompileOutcomes == {Ok(TRUE), Ok(FALSE), Err("compile error")}
InvokeOutcomes(repr) == {Ok(v) : v \in NativeValues(repr)} \cup {Err("invoke failed")}

-----------------------------------------------------------------------------
(* Initial states *)

Idle ==
    /\ options = NoResult
    /\ manifest_path = NoPath
    /\ builder = NoBuilder
    /\ borrow = NoBorrow
    /\ fn_definition = NoFn
    /\ compared = <<>>
    /\ requested = None
    /\ calls = <<>>
    /\ printed = <<>>
    /\ stderr = <<>>
    /\ result = NoResult
    /\ lookups = <<>>

\* trees with at most n manifests
Trees(n) == {t \in SUBSET AllManifests : Cardinality(t) <= n}

\* `mun build ...`
InitBuild ==
    /\ \E lvl \in {None, "3", "4"}, color \in {None, "enable", "always"},
          target \in {None, "bogus"}, watch \in BOOLEAN,
          path \in {NoPath, join(<<>>, MANIFEST_FILENAME),
                    join(<<"a">>, MANIFEST_FILENAME)} :
          argv = [NoArgs EXCEPT !.subcommand = "build", !.opt_level = lvl,
                                !.color = color, !.target = target,
                                !.watch = watch, !.manifest_path = path]
    /\ env_color \in {None, "disable"}
    /\ fs \in Trees(1)
    /\ cwd \in Dirs \cup {NoPath}
    /\ library = NoLibrary
    /\ directory = NoPath

\* `mun start ...`
InitStart ==
    /\ \E lib \in {None, "game.munlib"}, entry \in {None, "run"},
          delay \in {NoDelay} \cup DelayStrings :
          argv = [NoArgs EXCEPT !.subcommand = "start", !.LIBRARY = lib,
                                !.entry = entry, !.delay = delay]
    /\ library \in Libraries
    /\ env_color = None
    /\ fs = {}
    /\ cwd = <<>>
    /\ directory = NoPath

\* `mun language-server`, and `mun` alone
InitOther ==
    /\ \E cmd \in {None, "language-server"} :
          argv = [NoArgs EXCEPT !.subcommand = cmd]
    /\ library = NoLibrary
    /\ env_color = None
    /\ fs = {}
    /\ cwd = <<>>
    /\ directory = NoPath

Init ==
    /\ pc = "main"
    /\ Idle
    /\ (InitBuild \/ InitStart \/ InitOther)

\* compiler_options on every combination of its inputs
OptLevelValues == {None, "0", "1", "2", "3", "4", "fast"}
EnvColorValues == {None, "enable", "disable", "auto", "always"}
TargetValues == {None, "x86_64-pc-windows-msvc", "bogus"}

InitOptions ==
    /\ pc = "build"
    /\ Idle
    /\ \E lvl \in OptLevelValues, color \in {None} \cup COLOR_VALUES,
          target \in TargetValues :
          argv = [NoArgs EXCEPT !.subcommand = "build", !.opt_level = lvl,
                                !.color = color, !.target = target]
    /\ env_color \in EnvColorValues
    /\ fs = {}
    /\ cwd = <<>>
    /\ library = NoLibrary
    /\ directory = NoPath

\* find_manifest on every small tree and every query directory
InitFind ==
    /\ pc = "test"
    /\ Idle
    /\ argv = NoArgs
    /\ env_color = None
    /\ fs \in Trees(MaxManifests)
    /\ cwd = <<>>
    /\ library = NoLibrary
    /\ directory \in Dirs

-----------------------------------------------------------------------------
(* run_with_args *)

Finish(r) == result' = r /\ pc' = "done"

\* the parse and the dispatch on the subcommand
ParseArgs ==
    /\ pc = "main"
    /\ LET matches == clap(argv)
       IN  IF IsErr(matches)
           THEN /\ stderr' = Append(stderr, matches.msg)
                /\ calls' = Append(calls, Call("get_matches_from_safe", None, "failed"))
                /\ Finish(Ok(Error))
           ELSE /\ pc' = argv.subcommand
                /\ UNCHANGED <<stderr, calls, result>>
    /\ UNCHANGED <<argv, env_color, fs, cwd, library, options, manifest_path,
                   builder, borrow, fn_definition, compared, requested,
                   printed, directory, lookups>>

-----------------------------------------------------------------------------
(* build *)

\* let options = compiler_options(matches)?;
BuildOptions ==
    /\ pc = "build"
    /\ options' = compiler_options(argv, env_color)
    /\ calls' = Append(calls, Call("compiler_options", None, Outcome(IsOk(options'))))
    /\ IF IsErr(options') THEN Finish(options')
       ELSE pc' = "locate" /\ UNCHANGED result
    /\ UNCHANGED <<argv, env_color, fs, cwd, library, manifest_path, builder,
                   borrow, fn_definition, compared, requested, printed, stderr,
                   directory, lookups>>

\* std::fs::canonicalize: the paths of this model are absolute, without
\* links or dot components, so an existing path is its own canonical form
canonicalize(files, path) ==
    IF exists(files, path) THEN Ok(path) ELSE Err("No such file or directory")

\* the manifest, with no check that the explicit path exists
locate_manifest_unchecked(matches, files, dir) ==
    IF matches.manifest_path = NoPath
    THEN IF dir = NoPath
         THEN Panic("could not determine currrent working directory")
         ELSE LET found == find_manifest(files, dir)
              IN  IF found = NoPath
                  THEN Err(<<"could not find {} in '{}' or a parent directory",
                             MANIFEST_FILENAME, dir>>)
                  ELSE Ok(found)
    ELSE Ok(matches.manifest_path)

\* let manifest_path = match matches.value_of("manifest-path") { .. };
locate_manifest(matches, files, dir) ==
    IF matches.manifest_path = NoPath
    THEN IF dir = NoPath
         THEN Panic("could not determine currrent working directory")
         ELSE LET found == find_manifest(files, dir)
              IN  IF found = NoPath
                  THEN Err(<<"could not find {} in '{}' or a parent directory",
                             MANIFEST_FILENAME, dir>>)
                  ELSE Ok(found)
    ELSE LET canonical == canonicalize(files, matches.manifest_path)
         IN  IF IsErr(canonical)
             THEN Err(<<"'{}' does not refer to a valid manifest path",
                        matches.manifest_path>>)
             ELSE canonical

BuildLocate ==
    /\ pc = "locate"
    /\ LET located == locate_manifest(argv, fs, cwd)
           op == IF argv.manifest_path # NoPath THEN "canonicalize"
                 ELSE IF cwd = NoPath THEN "current_dir"
                 ELSE "find_manifest"
       IN  /\ calls' = Append(calls, Call(op, None, Outcome(IsOk(located))))
           /\ IF IsOk(located)
              THEN /\ manifest_path' = located.val
                   /\ pc' = "compile"
                   /\ UNCHANGED result
              ELSE /\ Finish(located)
                   /\ UNCHANGED manifest_path
    /\ UNCHANGED <<argv, env_color, fs, cwd, library, options, builder, borrow,
                   fn_definition, compared, requested, printed, stderr,
                   directory, lookups>>

\* if matches.is_present("watch") { .. } else { .. }
compile_collaborator(matches) ==
    IF matches.watch THEN "compile_and_watch_manifest" ELSE "compile_manifest"

BuildCompile ==
    /\ pc = "compile"
    /\ calls' = Append(calls, Call(compile_collaborator(argv), manifest_path, "pending"))
    /\ pc' = "compiling"
    /\ UNCHANGED <<argv, env_color, fs, cwd, library, options, manifest_path,
                   builder, borrow, fn_definition, compared, requested,
                   printed, stderr, result, directory, lookups>>

\* the ExitStatus of a collaborator's answer, every answer taken for success
compile_status_always_success(answer) ==
    IF IsOk(answer) THEN Ok(Success) ELSE answer

\* .map(Into::into)
compile_status(answer) ==
    IF IsOk(answer) THEN Ok(IntoExitStatus(answer.val)) ELSE answer

\* the collaborator returns; compile_and_watch_manifest may also never do so
BuildCompileReturn ==
    /\ pc = "compiling"
    /\ \E answer \in CompileOutcomes :
          /\ calls' = Returned(calls, Outcome(IsOk(answer) /\ answer.val), answer)
          /\ Finish(compile_status(answer))
    /\ UNCHANGED <<argv, env_color, fs, cwd, library, options, manifest_path,
                   builder, borrow, fn_definition, compared, requested,
                   printed, stderr, directory, lookups>>

-----------------------------------------------------------------------------
(* runtime and start *)

\* runtime(), before builder.spawn(): the delay is parsed and set
StartBuilder ==
    /\ pc = "start"
    /\ LET built == runtime_builder(argv)
       IN  IF IsErr(built)
           THEN /\ calls' = Append(calls, Call("parse", argv.delay, "failed"))
                /\ Finish(built)
                /\ UNCHANGED builder
           ELSE /\ builder' = built.val
                /\ pc' = "spawn"
                /\ UNCHANGED <<calls, result>>
    /\ UNCHANGED <<argv, env_color, fs, cwd, library, options, manifest_path,
                   borrow, fn_definition, compared, requested, printed, stderr,
                   directory, lookups>>

\* builder.spawn(), and the `?` of start on its answer
StartSpawn ==
    /\ pc = "spawn"
    /\ \E ok \in BOOLEAN :
          /\ calls' = Append(calls, Call("spawn", builder, Outcome(ok)))
          /\ IF ok THEN pc' = "lookup" /\ UNCHANGED result
             ELSE Finish(Err("failed to load library"))
    /\ UNCHANGED <<argv, env_color, fs, cwd, library, options, manifest_path,
                   builder, borrow, fn_definition, compared, requested,
                   printed, stderr, directory, lookups>>

ENTRY_MSG == "Failed to obtain entry point '{}'"

\* runtime.borrow() and get_function_definition(entry_point).ok_or_else(..)?
StartLookup ==
    /\ pc = "lookup"
    /\ LET held == start_borrow(borrow)
           found == get_function_definition(library, entry_point(argv))
       IN  /\ fn_definition' = found
           /\ calls' = Append(calls, Call("get_function_definition",
                                          entry_point(argv), Outcome(found.found)))
           /\ IF found.found
              THEN /\ borrow' = held
                   /\ pc' = "dispatch"
                   /\ UNCHANGED result
              ELSE /\ borrow' = drop_borrowed(held)
                   /\ Finish(Err(<<ENTRY_MSG, entry_point(argv)>>))
    /\ UNCHANGED <<argv, env_color, fs, cwd, library, options, manifest_path,
                   builder, compared, requested, printed, stderr, directory,
                   lookups>>

\* if let Some(ret_type) = .. return_type() { the if-chain } else { .. }
StartDispatch ==
    /\ pc = "dispatch"
    /\ LET ret_type == fn_definition.return_type
       IN  IF ret_type = NoType
           THEN /\ requested' = "()"
                /\ pc' = "invoke"
                /\ UNCHANGED <<compared, calls, borrow, result>>
           ELSE LET arm == dispatch(ret_type.guid)
                IN  /\ compared' = arm.compared
                    /\ requested' = arm.repr
                    /\ IF arm.repr = None
                       THEN /\ calls' = Append(calls,
                                   Call("type_check", ret_type.name, "failed"))
                            /\ borrow' = drop_borrowed(borrow)
                            /\ Finish(Err(<<UNSUPPORTED_MSG, ret_type.name>>))
                       ELSE /\ pc' = "invoke"
                            /\ UNCHANGED <<calls, borrow, result>>
    /\ UNCHANGED <<argv, env_color, fs, cwd, library, options, manifest_path,
                   builder, fn_definition, printed, stderr, directory, lookups>>

BORROW_MSG == "already mutably borrowed: BorrowError"

\* invoke_fn!(runtime, entry_point): the call is entered
StartInvoke ==
    /\ pc = "invoke"
    /\ borrow' = invoke_fn_borrow(borrow)
    /\ IF borrow'.conflict
       THEN /\ Finish(Panic(BORROW_MSG))
            /\ UNCHANGED calls
       ELSE /\ calls' = Append(calls, Call("invoke_fn", requested, "pending"))
            /\ pc' = "invoking"
            /\ UNCHANGED result
    /\ UNCHANGED <<argv, env_color, fs, cwd, library, options, manifest_path,
                   builder, fn_definition, compared, requested, printed,
                   stderr, directory, lookups>>

\* println!("{}", result) in the three typed arms, nothing in the unit arm
print_result(repr, value) ==
    IF repr = "()" THEN <<>> ELSE <<Display(repr, value)>>

\* what start makes of a failed invocation, with the error dropped
invoke_error_ignored(answer) == Ok(Success)

\* .map_err(|e| anyhow!("{}", e)), then Ok(ExitStatus::Success)
invoke_status(answer) ==
    IF IsOk(answer) THEN Ok(Success) ELSE Err(answer.msg)

\* invoke_fn! returns; the value is printed; start returns
StartInvokeReturn ==
    /\ pc = "invoking"
    /\ \E answer \in InvokeOutcomes(requested) :
          /\ calls' = Returned(calls, Outcome(IsOk(answer)), answer)
          /\ printed' = IF IsOk(answer)
                        THEN printed \o print_result(requested, answer.val)
                        ELSE printed
          /\ Finish(invoke_status(answer))
    /\ borrow' = drop_borrowed(drop_ref(borrow))
    /\ UNCHANGED <<argv, env_color, fs, cwd, library, options, manifest_path,
                   builder, fn_definition, compared, requested, stderr,
                   directory, lookups>>

-----------------------------------------------------------------------------
(* language_server *)

LanguageServer ==
    /\ pc = "language-server"
    /\ calls' = Append(calls, Call("run_server", None, "pending"))
    /\ pc' = "serving"
    /\ UNCHANGED <<argv, env_color, fs, cwd, library, options, manifest_path,
                   builder, borrow, fn_definition, compared, requested,
                   printed, stderr, result, directory, lookups>>

\* run_server returns, if it ever does
LanguageServerReturn ==
    /\ pc = "serving"
    /\ \E ok \in BOOLEAN :
          /\ calls' = Returned(calls, Outcome(ok),
                               IF ok THEN Ok("()") ELSE Err("language server error"))
          /\ Finish(IF ok THEN Ok(Success) ELSE Err("language server error"))
    /\ UNCHANGED <<argv, env_color, fs, cwd, library, options, manifest_path,
                   builder, borrow, fn_definition, compared, requested,
                   printed, stderr, directory, lookups>>

-----------------------------------------------------------------------------
(* test_find_manifest: lookups of one directory against one tree *)

TestFindManifest ==
    /\ pc = "test"
    /\ Len(lookups) < MaxLookups
    /\ lookups' = Append(lookups, find_manifest(fs, directory))
    /\ UNCHANGED <<argv, env_color, fs, cwd, library, pc, options,
                   manifest_path, builder, borrow, fn_definition, compared,
                   requested, calls, printed, stderr, result, directory>>

-----------------------------------------------------------------------------
(* Specifications *)

Next ==
    \/ ParseArgs
    \/ BuildOptions
    \/ BuildLocate
    \/ BuildCompile
    \/ BuildCompileReturn
    \/ StartBuilder
    \/ StartSpawn
    \/ StartLookup
    \/ StartDispatch
    \/ StartInvoke
    \/ StartInvokeReturn
    \/ LanguageServer
    \/ LanguageServerReturn

\* every command of run_with_args
Spec == Init /\ [][Next]_vars

\* compiler_options alone, on all its inputs
SpecOptions == InitOptions /\ [][BuildOptions]_vars

\* find_manifest alone, on all small trees
SpecFind == InitFind /\ [][TestFindManifest]_vars

-----------------------------------------------------------------------------
(* Properties *)

Done == pc = "done"

CountOp(op) == Cardinality({i \in DOMAIN calls : calls[i].op = op})

LastCall == calls[Len(calls)]

IsPrefix(p, q) == Len(p) <= Len(q) /\ SubSeq(q, 1, Len(p)) = p

SupportedGuids == {bool_type_guid, f64_type_guid, i64_type_guid}

\* start has looked the entry point up and found it
EntryResolved == argv.subcommand = "start" /\ fn_definition.found

DeclaresReturn == EntryResolved /\ fn_definition.return_type # NoType

DeclaresUnsupported ==
    DeclaresReturn /\ fn_definition.return_type.guid \notin SupportedGuids

DeclaresSupported ==
    DeclaresReturn /\ fn_definition.return_type.guid \in SupportedGuids

\* C1: an entry point whose declared return type is none of bool, f64, i64
\* ends start with the error that names the type, and invoke_fn is never
\* entered, in no state from the lookup to the error.
C1_UnsupportedReturnRefused ==
    DeclaresUnsupported =>
        /\ CountOp("invoke_fn") = 0
        /\ pc \in {"dispatch", "done"}
        /\ printed = <<>>
        /\ Done => result = Err(<<UNSUPPORTED_MSG, fn_definition.return_type.name>>)

C1_Witness ==
    /\ Done
    /\ DeclaresUnsupported
    /\ fn_definition.return_type.name = "core::i32"
    /\ result = Err(<<UNSUPPORTED_MSG, "core::i32">>)
    /\ CountOp("spawn") = 1

\* the native representation of each supported guid
ReprOf(guid) ==
    CASE guid = bool_type_guid -> "bool"
      [] guid = f64_type_guid -> "f64"
      [] guid = i64_type_guid -> "i64"

DispatchOrder == <<bool_type_guid, f64_type_guid, i64_type_guid>>

\* C2: a declared return guid is compared with bool, f64, i64 in that order
\* up to the first match; the entry point is then invoked exactly once in the
\* representation of the matching arm; a successful invocation prints exactly
\* one value, the one handed back (true prints as `true`), and yields Success.
C2_TypedDispatch ==
    (DeclaresSupported /\ pc \in {"invoke", "invoking", "done"}) =>
        LET guid == fn_definition.return_type.guid
        IN  /\ IsPrefix(compared, DispatchOrder)
            /\ compared # <<>>
            /\ compared[Len(compared)] = guid
            /\ \A i \in 1..(Len(compared) - 1) : compared[i] # guid
            /\ requested = ReprOf(guid)
            /\ CountOp("invoke_fn") = (IF pc = "invoke" THEN 0 ELSE 1)
            /\ pc # "invoke" => LastCall.op = "invoke_fn" /\ LastCall.arg = ReprOf(guid)
            /\ ~Done => printed = <<>>
            /\ (Done /\ LastCall.outcome = "ok") =>
                  /\ result = Ok(Success)
                  /\ Len(printed) = 1
                  /\ printed[1] = Display(ReprOf(guid), LastCall.answer.val)
                  /\ (guid = bool_type_guid /\ LastCall.answer.val = TRUE)
                        => printed = << <<"t", "r", "u", "e">> >>

C2_Witness ==
    /\ Done
    /\ DeclaresSupported
    /\ fn_definition.return_type.guid = f64_type_guid
    /\ compared = <<bool_type_guid, f64_type_guid>>
    /\ LastCall.op = "invoke_fn" /\ LastCall.outcome = "ok"
    /\ printed = << <<"-", "1", ".", "5">> >>
    /\ result = Ok(Success)

\* C3: an entry point with no return type is invoked once; a successful
\* invocation yields Success, a failed one an Err (no panic), and nothing is
\* printed in either case.
C3_UnitEntryPoint ==
    (EntryResolved /\ fn_definition.return_type = NoType) =>
        /\ printed = <<>>
        /\ compared = <<>>
        /\ CountOp("invoke_fn") = (IF pc \in {"invoking", "done"} THEN 1 ELSE 0)
        /\ Done =>
              /\ LastCall.op = "invoke_fn" /\ LastCall.arg = "()"
              /\ LastCall.outcome = "ok" => result = Ok(Success)
              /\ LastCall.outcome = "failed" => IsErr(result)

C3_Witness ==
    /\ Done
    /\ EntryResolved
    /\ fn_definition.return_type = NoType
    /\ LastCall.op = "invoke_fn" /\ LastCall.outcome = "failed"
    /\ IsErr(result)
    /\ printed = <<>>

\* the directories on the chain dir, parent, .., root that hold a manifest
ChainWithManifest(files, dir) ==
    {p \in SeqsUpTo(DirNames, Len(dir)) :
        IsPrefix(p, dir) /\ join(p, MANIFEST_FILENAME) \in files}

\* the manifest of the nearest such directory, NoPath when there is none
Nearest(files, dir) ==
    LET chain == ChainWithManifest(files, dir)
    IN  IF chain = {} THEN NoPath
        ELSE join(CHOOSE p \in chain : \A q \in chain : Len(q) <= Len(p),
                  MANIFEST_FILENAME)

\* C4: every lookup of a directory returns the manifest of the nearest
\* directory on its chain to the root that holds one (the directory itself
\* included), and not-found exactly when none does; the tree is as it was, so
\* every repetition returns that same path.
C4_FindManifestNearest ==
    \A i \in DOMAIN lookups :
        /\ lookups[i] = Nearest(fs, directory)
        /\ lookups[i] = NoPath <=> ChainWithManifest(fs, directory) = {}
        /\ lookups[i] = lookups[1]

C4_Witness ==
    /\ Len(lookups) >= 2
    /\ Len(directory) = 2
    /\ Cardinality(ChainWithManifest(fs, directory)) = 2
    /\ join(directory, MANIFEST_FILENAME) \notin fs
    /\ lookups[2] = join(parent(directory), MANIFEST_FILENAME)

CompileCalls == CountOp("compile_manifest") + CountOp("compile_and_watch_manifest")

ResolveCalls == {i \in DOMAIN calls : calls[i].op \in {"canonicalize", "find_manifest"}}

\* the manifest build is to use exists: the explicit path is on disk, or a
\* directory from the current one up to the root holds a manifest
ManifestResolvable ==
    IF argv.manifest_path # NoPath THEN argv.manifest_path \in fs
    ELSE cwd # NoPath /\ ChainWithManifest(fs, cwd) # {}

AnyFailed == \E i \in DOMAIN calls : calls[i].outcome = "failed"

\* C6: once an operation of a command has failed (usage, manifest
\* resolution, configuration, compile, runtime launch, invocation),
\* run_with_args does not return Ok(Success): the command ends Ok(Error), Err
\* or in a panic; and the operation that failed is not called again.
C6_FailureIsTerminal ==
    /\ AnyFailed => result # Ok(Success)
    /\ (AnyFailed /\ Done) => (result = Ok(Error) \/ IsErr(result) \/ IsPanic(result))
    /\ \A i, j \in DOMAIN calls :
          (i < j /\ calls[i].outcome = "failed") => calls[j].op # calls[i].op
    /\ (Done /\ result = Ok(Success)) =>
          \A i \in DOMAIN calls : calls[i].outcome = "ok"

C6_Witness ==
    /\ Done
    /\ argv.subcommand = "build"
    /\ LastCall.op = "compile_manifest"
    /\ LastCall.answer = Ok(FALSE)
    /\ result = Ok(Error)

C8_ColorPrecedence ==
    pc # "build" =>
        /\ IsOk(options) =>
              LET color == options.val.display_color
              IN  /\ argv.color = "enable" => color = "Enable"
                  /\ argv.color = "disable" => color = "Disable"
                  /\ argv.color = "auto" => color = "Auto"
                  /\ (argv.color = None /\ env_color = "enable") => color = "Enable"
                  /\ (argv.color = None /\ env_color = "disable") => color = "Disable"
                  /\ (argv.color = None /\ env_color \notin {"enable", "disable"})
                        => color = "Auto"
        /\ IsErr(options) =>
              \/ argv.opt_level \notin {None, "0", "1", "2", "3"}
              \/ argv.target \notin {None} \cup KnownTargets

C8_Witness ==
    /\ pc = "locate"
    /\ argv.color = "enable"
    /\ env_color = "disable"
    /\ IsOk(options)
    /\ options.val.display_color = "Enable"

\* C9: --opt-level 0, 1, 2, 3 give the levels None, Less, Default,
\* Aggressive and no flag gives Default; any other value makes
\* compiler_options fail with the message that names the levels 0-3, and no
\* configuration is produced.
C9_OptLevelMapping ==
    pc # "build" =>
        /\ argv.opt_level \in {None, "0", "1", "2", "3"} =>
              /\ IsOk(options) =>
                    options.val.optimization_lvl =
                        (CASE argv.opt_level = "0" -> "None"
                           [] argv.opt_level = "1" -> "Less"
                           [] argv.opt_level = "2" -> "Default"
                           [] argv.opt_level = "3" -> "Aggressive"
                           [] argv.opt_level = None -> "Default")
              /\ IsErr(options) => options.msg # OPT_LEVEL_MSG
              /\ argv.target \in {None} \cup KnownTargets => IsOk(options)
        /\ argv.opt_level \notin {None, "0", "1", "2", "3"} =>
              /\ options = Err(OPT_LEVEL_MSG)
              /\ Done
              /\ result = options

C9_Witness ==
    /\ pc = "locate"
    /\ argv.opt_level = "3"
    /\ IsOk(options)
    /\ options.val.optimization_lvl = "Aggressive"

\* the characters of an unsigned decimal number, one leading '+' allowed
IsUnsigned(s) ==
    LET digits == IF s # <<>> /\ s[1] = "+" THEN Tail(s) ELSE s
    IN  digits # <<>> /\ \A i \in DOMAIN digits : IsDigit(digits[i])

\* the number such characters denote, last digit first
RECURSIVE NumberOf(_)
NumberOf(s) ==
    IF s = <<>> \/ s = <<"+">> THEN 0
    ELSE DigitValue(s[Len(s)]) + 10 * NumberOf(SubSeq(s, 1, Len(s) - 1))

\* C10: a --delay that is an unsigned number N gives the builder, and the
\* runtime spawned from it, a delay of N ms; no --delay leaves the builder's
\* default; any other --delay ends start with an Err, with nothing spawned,
\* looked up or invoked.
C10_DelayParsing ==
    (argv.subcommand = "start" /\ IsOk(clap(argv)) /\ pc \notin {"main", "start"}) =>
        /\ argv.delay = NoDelay =>
              builder = RuntimeBuilder_new(argv.LIBRARY)
        /\ (argv.delay # NoDelay /\ IsUnsigned(argv.delay)) =>
              builder = [library_path |-> argv.LIBRARY,
                         delay |-> NumberOf(argv.delay)]
        /\ \A i \in DOMAIN calls : calls[i].op = "spawn" => calls[i].arg = builder
        /\ (argv.delay # NoDelay /\ ~IsUnsigned(argv.delay)) =>
              /\ Done
              /\ IsErr(result)
              /\ builder = NoBuilder
              /\ CountOp("spawn") = 0
              /\ CountOp("get_function_definition") = 0
              /\ CountOp("invoke_fn") = 0

C10_Witness ==
    /\ argv.delay = <<"2", "5">>
    /\ CountOp("spawn") = 1
    /\ calls[1].arg.delay = 25
    /\ pc = "lookup"

====
